---- MODULE Spec2Model ----
(***************************************************************************)
(* Model of src/app.py, the "Multi-Deal Availability-Based Allocation      *)
(* Tool": two editable tables (deals, vehicles) and the handler of the     *)
(* "Calculate Allocations" button, which pro-rates the Term Loan, Revolver *)
(* and DDTL of every deal over the vehicles by availability.               *)
(*                                                                         *)
(* Numbers are Python floats (IEEE 754 binary64).  A float is modelled as  *)
(* the record [neg, m, e] standing for (-1)^neg * m * 2^e, with m an       *)
(* arbitrary-precision natural (little-endian limbs in base 2^15, because  *)
(* TLC integers are 32 bits wide), m odd or zero, and every operation      *)
(* rounding its exact result to Precision significant bits, ties to even,  *)
(* as the hardware does.  Overflow, subnormals, NaN, infinities and -0.0   *)
(* lie outside the values the model draws.                                 *)
(***************************************************************************)
EXTENDS Integers, Sequences, FiniteSets, TLC

\* Significand width of a Python float (sys.float_info.mant_dig).
Precision == 53

\* Bits per limb of an arbitrary-precision natural.
LimbBits == 15
Base == 2^LimbBits

(***************************************************************************)
(* Arbitrary-precision naturals: little-endian sequences of limbs in       *)
(* 0..Base-1 whose last limb is not 0; <<>> is zero.                       *)
(***************************************************************************)
RECURSIVE NNorm(_)
NNorm(a) ==
    IF a = <<>> THEN a
    ELSE IF a[Len(a)] = 0 THEN NNorm(SubSeq(a, 1, Len(a) - 1)) ELSE a

RECURSIVE NFromInt(_)
NFromInt(k) == IF k = 0 THEN <<>> ELSE <<k % Base>> \o NFromInt(k \div Base)

RECURSIVE NAddC(_, _, _)
NAddC(a, b, c) ==
    IF a = <<>> /\ b = <<>> THEN (IF c = 0 THEN <<>> ELSE <<c>>)
    ELSE LET x == IF a = <<>> THEN 0 ELSE Head(a)
             y == IF b = <<>> THEN 0 ELSE Head(b)
             s == x + y + c
         IN  <<s % Base>> \o NAddC(IF a = <<>> THEN a ELSE Tail(a),
                                   IF b = <<>> THEN b ELSE Tail(b),
                                   s \div Base)

NAdd(a, b) == NAddC(a, b, 0)

\* a - b for a >= b.
RECURSIVE NSubB(_, _, _)
NSubB(a, b, br) ==
    IF a = <<>> THEN <<>>
    ELSE LET y == IF b = <<>> THEN 0 ELSE Head(b)
             d == Head(a) - y - br
         IN  <<IF d < 0 THEN d + Base ELSE d>>
                 \o NSubB(Tail(a), IF b = <<>> THEN b ELSE Tail(b),
                          IF d < 0 THEN 1 ELSE 0)

NSub(a, b) == NNorm(NSubB(a, b, 0))

\* -1, 0, 1 as a < b, a = b, a > b.
RECURSIVE NCmpFrom(_, _, _)
NCmpFrom(a, b, i) ==
    IF i = 0 THEN 0
    ELSE IF a[i] < b[i] THEN -1
    ELSE IF a[i] > b[i] THEN 1
    ELSE NCmpFrom(a, b, i - 1)

NCmp(a, b) ==
    IF Len(a) < Len(b) THEN -1
    ELSE IF Len(a) > Len(b) THEN 1
    ELSE NCmpFrom(a, b, Len(a))

\* a * k + c for 0 <= k, c < Base.
RECURSIVE NMulSmallC(_, _, _)
NMulSmallC(a, k, c) ==
    IF a = <<>> THEN (IF c = 0 THEN <<>> ELSE <<c>>)
    ELSE LET p == Head(a) * k + c
         IN  <<p % Base>> \o NMulSmallC(Tail(a), k, p \div Base)

NMulSmall(a, k) == IF k = 0 THEN <<>> ELSE NMulSmallC(a, k, 0)

RECURSIVE NMul(_, _)
NMul(a, b) ==
    IF a = <<>> \/ b = <<>> THEN <<>>
    ELSE LET rest == NMul(a, Tail(b))
         IN  NAdd(NMulSmall(a, Head(b)),
                  IF rest = <<>> THEN rest ELSE <<0>> \o rest)

\* <<floor(a / d), a mod d>> for 0 < d < Base, limbs 1..i of a, r carried in.
RECURSIVE NDivSmallFrom(_, _, _, _)
NDivSmallFrom(a, d, i, r) ==
    IF i = 0 THEN <<<<>>, r>>
    ELSE LET cur  == r * Base + a[i]
             rest == NDivSmallFrom(a, d, i - 1, cur % d)
         IN  <<Append(rest[1], cur \div d), rest[2]>>

NDivSmall(a, d) ==
    LET qr == NDivSmallFrom(a, d, Len(a), 0) IN <<NNorm(qr[1]), NFromInt(qr[2])>>

RECURSIVE BitLenSmall(_)
BitLenSmall(k) == IF k = 0 THEN 0 ELSE 1 + BitLenSmall(k \div 2)

NBitLen(a) ==
    IF a = <<>> THEN 0 ELSE LimbBits * (Len(a) - 1) + BitLenSmall(a[Len(a)])

\* Bit i (0 = least significant) of a.
NBit(a, i) ==
    IF i \div LimbBits >= Len(a) THEN 0
    ELSE (a[(i \div LimbBits) + 1] \div 2^(i % LimbBits)) % 2

RECURSIVE Zeros(_)
Zeros(n) == IF n = 0 THEN <<>> ELSE <<0>> \o Zeros(n - 1)

\* a * 2^k.
NShl(a, k) ==
    IF a = <<>> THEN a
    ELSE Zeros(k \div LimbBits) \o NMulSmall(a, 2^(k % LimbBits))

\* floor(a / 2^k).
NShr(a, k) ==
    IF k \div LimbBits >= Len(a) THEN <<>>
    ELSE NDivSmall(SubSeq(a, (k \div LimbBits) + 1, Len(a)), 2^(k % LimbBits))[1]

\* a mod 2^k.
NLow(a, k) == NSub(a, NShl(NShr(a, k), k))

NOdd(a) == a # <<>> /\ a[1] % 2 = 1

\* The number of trailing zero bits of a > 0.
RECURSIVE TrailingZerosSmall(_)
TrailingZerosSmall(k) == IF k % 2 = 1 THEN 0 ELSE 1 + TrailingZerosSmall(k \div 2)

RECURSIVE NTrailingZeros(_)
NTrailingZeros(a) ==
    IF a[1] = 0 THEN LimbBits + NTrailingZeros(Tail(a)) ELSE TrailingZerosSmall(a[1])

\* Binary long division: bits i-1 .. 0 of a are still to be brought down.
\* (Len(q) < 0 is never true; it has q evaluated at every step, not at the end.)
RECURSIVE NDivBits(_, _, _, _, _)
NDivBits(a, b, i, q, r) ==
    IF i = 0 \/ Len(q) < 0 THEN <<q, r>>
    ELSE LET r2 == NAddC(r, r, NBit(a, i - 1))
             ge == NCmp(r2, b) >= 0
         IN  NDivBits(a, b, i - 1,
                      NAddC(q, q, IF ge THEN 1 ELSE 0),
                      IF ge THEN NSub(r2, b) ELSE r2)

\* <<floor(a / b), a mod b>> for b > 0.
NDivMod(a, b) ==
    IF Len(b) = 1 THEN NDivSmall(a, b[1])
    ELSE IF NCmp(a, b) < 0 THEN <<<<>>, a>>
    ELSE LET skip == NBitLen(b) - 1
             left == NBitLen(a) - skip
         IN  NDivBits(a, b, left, <<>>, NShr(a, left))

\* Body(v), with v evaluated once (a LET definition is evaluated at each use).
Bind(v, Body(_)) == CHOOSE r \in {Body(x) : x \in {v}} : TRUE

(***************************************************************************)
(* Python floats.                                                          *)
(***************************************************************************)
Zero == [neg |-> FALSE, m |-> <<>>, e |-> 0]

\* The float of value (-1)^neg * n * 2^e, n of at most Precision bits.
Canon(neg, n, e) ==
    IF n = <<>> THEN Zero
    ELSE LET tz == NTrailingZeros(n)
         IN  [neg |-> neg, m |-> NShr(n, tz), e |-> e + tz]

\* Round to nearest, ties to even: the float nearest to (-1)^neg * (n + f) * 2^e,
\* where 0 <= f < 1 and sticky says f > 0 (then n has more than Precision bits).
RoundNat(neg, n, e, sticky) ==
    IF NBitLen(n) <= Precision THEN Canon(neg, n, e)
    ELSE LET sh  == NBitLen(n) - Precision
             q   == NShr(n, sh)
             c   == NCmp(NLow(n, sh), NShl(<<1>>, sh - 1))
             up  == c > 0 \/ (c = 0 /\ (sticky \/ NOdd(q)))
         IN  Canon(neg, IF up THEN NAdd(q, <<1>>) ELSE q, e + sh)

\* float(k) for an integer k of the model.
FromInt(k) == IF k < 0 THEN Canon(TRUE, NFromInt(-k), 0) ELSE Canon(FALSE, NFromInt(k), 0)

FNeg(x) == IF x.m = <<>> THEN x ELSE [x EXCEPT !.neg = ~x.neg]

\* x + y in the reals: exact, of any width
XAdd(x, y) ==
    IF x.m = <<>> THEN y
    ELSE IF y.m = <<>> THEN x
    ELSE LET e0 == IF x.e < y.e THEN x.e ELSE y.e
             a  == NShl(x.m, x.e - e0)
             b  == NShl(y.m, y.e - e0)
             c  == NCmp(a, b)
         IN  IF x.neg = y.neg THEN Canon(x.neg, NAdd(a, b), e0)
             ELSE IF c = 0 THEN Zero
             ELSE IF c > 0 THEN Canon(x.neg, NSub(a, b), e0)
             ELSE Canon(y.neg, NSub(b, a), e0)

\* x + y
FAdd(x, y) == Bind(XAdd(x, y), LAMBDA z : RoundNat(z.neg, z.m, z.e, FALSE))

\* x - y
FSub(x, y) == FAdd(x, FNeg(y))

\* x * y
FMul(x, y) ==
    IF x.m = <<>> \/ y.m = <<>> THEN Zero
    ELSE RoundNat(x.neg # y.neg, NMul(x.m, y.m), x.e + y.e, FALSE)

\* x / y for y # 0: the quotient is taken to Precision + 2 bits or more, the
\* remainder is the sticky bit.
FDiv(x, y) ==
    IF x.m = <<>> THEN Zero
    ELSE LET want == Precision + 2 + NBitLen(y.m) - NBitLen(x.m)
             s    == IF want > 0 THEN want ELSE 0
             qr   == NDivMod(NShl(x.m, s), y.m)
         IN  RoundNat(x.neg # y.neg, qr[1], x.e - y.e - s, qr[2] # <<>>)

\* x > 0
FPos(x) == x.m # <<>> /\ ~x.neg

\* x > y
FGt(x, y) == FPos(FSub(x, y))

(***************************************************************************)
(* Table cells.  A cell of the data editor holds a value or None (an empty *)
(* cell); a text is a sequence of characters.  A frame is a sequence of    *)
(* rows, a row a record of cells by column.                                *)
(***************************************************************************)
Num(x)  == [none |-> FALSE, v |-> x]
Text(s) == [none |-> FALSE, s |-> s]
Bool(b) == [none |-> FALSE, b |-> b]
NoneNum  == [none |-> TRUE, v |-> Zero]
NoneText == [none |-> TRUE, s |-> <<>>]
NoneBool == [none |-> TRUE, b |-> FALSE]

\* str(None)
NoneStr == <<"N", "o", "n", "e">>

RECURSIVE LStrip(_)
LStrip(s) == IF s # <<>> /\ Head(s) = " " THEN LStrip(Tail(s)) ELSE s

RECURSIVE RStrip(_)
RStrip(s) == IF s # <<>> /\ s[Len(s)] = " " THEN RStrip(SubSeq(s, 1, Len(s) - 1)) ELSE s

\* str.strip()
Strip(s) == RStrip(LStrip(s))

\* pd.to_numeric(col, errors="coerce").fillna(0.0) on one cell
ToNumeric(c) == IF c.none THEN Num(Zero) ELSE c

\* col.astype(str).str.strip() on one cell
AsStrStrip(c) == Text(Strip(IF c.none THEN NoneStr ELSE c.s))

\* col.fillna(False).astype(bool) on one cell
AsBool(c) == Bool(IF c.none THEN FALSE ELSE c.b)

(***************************************************************************)
(* Frames live in a heap (a sequence of frames, a reference is an index),  *)
(* so that df.copy() and an assignment to a column of the copy are told    *)
(* apart from a write to the caller's frame.                               *)
(***************************************************************************)
\* df.copy(): a new frame with the rows of heap[ref]
\* (mutant) no copy: the function works on the caller's frame
DfAlias(heap, ref) == [heap |-> heap, ref |-> ref]

\* df.copy(): a new frame with the same rows
DfCopy(heap, ref) == [heap |-> Append(heap, heap[ref]), ref |-> Len(heap) + 1]

\* out[col] = f(out[col]) for the columns that clean_deals rewrites
CleanDealRow(r) ==
    [r EXCEPT !.Deal     = AsStrStrip(@),
              !.TermLoan = ToNumeric(@),
              !.Revolver = ToNumeric(@),
              !.DDTL     = ToNumeric(@)]

clean_deals(heap, df) ==
    LET c == DfCopy(heap, df)
    IN  [heap |-> [c.heap EXCEPT ![c.ref] = [i \in 1..Len(@) |-> CleanDealRow(@[i])]],
         ref  |-> c.ref]

CleanVehicleRow(r) ==
    [r EXCEPT !.Cash       = ToNumeric(@),
              !.Unfunded   = ToNumeric(@),
              !.Uncalled   = ToNumeric(@),
              !.TargetHold = ToNumeric(@),
              !.RevolverOn = AsBool(@),
              !.DDTLOn     = AsBool(@),
              !.Vehicle    = AsStrStrip(@)]

clean_vehicles(heap, df) ==
    LET c == DfCopy(heap, df)
    IN  [heap |-> [c.heap EXCEPT ![c.ref] = [i \in 1..Len(@) |-> CleanVehicleRow(@[i])]],
         ref  |-> c.ref]

\* (mutant) the availability is the cash alone
AvailabilityRowCashOnly(r) == [Availability |-> Num(r.Cash.v)] @@ r

\* df["Availability ($)"] = Cash + Unfunded Commitments + Uncalled Capital
AvailabilityRow(r) ==
    [Availability |-> Num(FAdd(FAdd(r.Cash.v, r.Unfunded.v), r.Uncalled.v))] @@ r

compute_availability(heap, vdf) ==
    LET c == DfCopy(heap, vdf)
    IN  [heap |-> [c.heap EXCEPT ![c.ref] = [i \in 1..Len(@) |-> AvailabilityRow(@[i])]],
         ref  |-> c.ref]

(***************************************************************************)
(* Display formatting.                                                     *)
(***************************************************************************)
\* format(x, ",.Nf"): x rounded half to even to a whole number of 1/scale, the
\* sign kept (a small negative x prints as -0); units is that whole number.
FmtFixed(x, scale) ==
    LET n  == NMulSmall(x.m, scale)
        sh == -x.e
        q  == NShr(n, sh)
        c  == NCmp(NLow(n, sh), NShl(<<1>>, sh - 1))
        up == c > 0 \/ (c = 0 /\ NOdd(q))
    IN  [blank |-> FALSE,
         neg   |-> x.neg,
         units |-> IF x.e >= 0 THEN NShl(n, x.e)
                   ELSE IF up THEN NAdd(q, <<1>>) ELSE q]

\* fmt_dollars(x) = f"${float(x):,.0f}"
fmt_dollars(x) == FmtFixed(x, 1)

\* fmt_percent(x) = f"{float(x):,.2f}%"
fmt_percent(x) == FmtFixed(x, 100)

\* the empty string shown in a percentage column
Blank == [blank |-> TRUE, neg |-> FALSE, units |-> <<>>]

Digit == <<"1", "2", "3", "4", "5", "6", "7", "8", "9">>

\* f"Deal {idx+1}"
DefaultDealName(idx) == <<"D", "e", "a", "l", " ", Digit[idx + 1]>>

(***************************************************************************)
(* Series: sequences of [k, nan, v], k the index label.                    *)
(***************************************************************************)
\* frame.set_index("Vehicle")["Availability ($)"]
AvailabilitySeries(frame) ==
    [i \in 1..Len(frame) |->
        [k |-> frame[i].Vehicle.s, nan |-> FALSE, v |-> frame[i].Availability.v]]

\* pd.Series(0.0, index=labels)
ZeroSeries(labels) ==
    [i \in 1..Len(labels) |-> [k |-> labels[i], nan |-> FALSE, v |-> Zero]]

\* series.sum(): the elements are added left to right (fewer than 8 of them)
RECURSIVE SumFrom(_, _, _)
SumFrom(series, i, acc) ==
    IF i > Len(series) THEN acc
    ELSE SumFrom(series, i + 1, FAdd(acc, series[i].v))

SeriesSum(series) == SumFrom(series, 1, Zero)

\* series / den
SeriesDiv(series, den) ==
    [i \in 1..Len(series) |-> [series[i] EXCEPT !.v = FDiv(@, den)]]

\* series.reindex(labels): the value at each label, NaN where the series has none
Reindex(series, labels) ==
    [i \in 1..Len(labels) |->
        LET hits == {j \in 1..Len(series) : series[j].k = labels[i]}
        IN  IF hits = {} THEN [k |-> labels[i], nan |-> TRUE, v |-> Zero]
            ELSE [k |-> labels[i], nan |-> FALSE, v |-> series[CHOOSE j \in hits : TRUE].v]]

\* series.fillna(x)
FillNa(series, x) ==
    [i \in 1..Len(series) |->
        IF series[i].nan THEN [series[i] EXCEPT !.nan = FALSE, !.v = x] ELSE series[i]]

\* (mutant) the product with the facility size is forgotten
SeriesMulDropped(series, total) == series

\* series * total
SeriesMul(series, total) ==
    [i \in 1..Len(series) |-> [series[i] EXCEPT !.v = FMul(@, total)]]

\* series.get(label, 0.0) or 0.0
SeriesGet(series, label) ==
    LET hits == {j \in 1..Len(series) : series[j].k = label}
    IN  IF hits = {} THEN Zero ELSE series[CHOOSE j \in hits : TRUE].v

(***************************************************************************)
(* The handler of the "Calculate Allocations" button.                      *)
(***************************************************************************)
\* (mutant) the Term Loan keeps every vehicle
tl_elig_all(vdf) == vdf

\* vdf[vdf["Availability ($)"] > 0]
tl_elig(vdf) == SelectSeq(vdf, LAMBDA r : FPos(r.Availability.v))

\* (mutant) the Revolver toggle is not read
rev_elig_untoggled(vdf) == SelectSeq(vdf, LAMBDA r : FPos(r.Availability.v))

\* vdf[(vdf["Availability ($)"] > 0) & (vdf["Revolver On"])]
rev_elig(vdf) == SelectSeq(vdf, LAMBDA r : FPos(r.Availability.v) /\ r.RevolverOn.b)

\* (mutant) the DDTL toggle is not read
ddtl_elig_untoggled(vdf) == SelectSeq(vdf, LAMBDA r : FPos(r.Availability.v))

\* vdf[(vdf["Availability ($)"] > 0) & (vdf["DDTL On"])]
ddtl_elig(vdf) == SelectSeq(vdf, LAMBDA r : FPos(r.Availability.v) /\ r.DDTLOn.b)

\* (mutant) every eligible vehicle has the same share
SharesEqual(elig) ==
    LET weights == AvailabilitySeries(elig)
    IN  SeriesDiv([i \in 1..Len(weights) |-> [weights[i] EXCEPT !.v = FromInt(1)]],
                  FromInt(Len(weights)))

\* shares = weights / den
Shares(elig) ==
    LET weights == AvailabilitySeries(elig)
    IN  SeriesDiv(weights, SeriesSum(weights))

\* One allocation vector: pd.Series(0.0, index=vehicles), replaced when
\* total > 0 and den > 0 by shares.reindex(vehicles).fillna(0.0) * total.
Allocate(total, elig, vehicles) ==
    IF FPos(total) /\ FPos(SeriesSum(AvailabilitySeries(elig)))
    THEN SeriesMul(FillNa(Reindex(Shares(elig), vehicles), Zero), total)
    ELSE ZeroSeries(vehicles)

\* deal_name = row.get("Deal", f"Deal {idx+1}") or f"Deal {idx+1}"
DealName(row, idx) == IF row.Deal.s = <<>> THEN DefaultDealName(idx) ELSE row.Deal.s

\* The test before "continue": "Skip empty rows (no tranche sizes)".
SkipRow(row, idx) ==
    /\ Strip(DealName(row, idx)) = <<>>
    /\ row.TermLoan.v = Zero
    /\ row.Revolver.v = Zero
    /\ row.DDTL.v = Zero

\* (mutant) the difference column adds the size to the sum
CheckRowAdded(tranche, size, sum) ==
    [Tranche    |-> tranche,
     Size       |-> fmt_dollars(size),
     Sum        |-> fmt_dollars(sum),
     Difference |-> fmt_dollars(FAdd(sum, size))]

\* One row of check_df: Tranche, Size ($), Sum of Allocations ($), Difference ($)
CheckRow(tranche, size, sum) ==
    [Tranche    |-> tranche,
     Size       |-> fmt_dollars(size),
     Sum        |-> fmt_dollars(sum),
     Difference |-> fmt_dollars(FSub(sum, size))]

Hundred == FromInt(100)

\* The three allocation vectors of one deal, indexed by vehicle name.
AllocVectors(row, vdf, vehicles) ==
    [term |-> Allocate(row.TermLoan.v, tl_elig(vdf), vehicles),
     rev  |-> Allocate(row.Revolver.v, rev_elig(vdf), vehicles),
     ddtl |-> Allocate(row.DDTL.v, ddtl_elig(vdf), vehicles)]

\* What one pass of the loop body shows for deals row `row` (index label idx)
\* once the allocation vectors are computed, with the local variables the
\* tables are built from.
SectionTables(row, idx, vdf, vehicles, alloc) ==
    LET deal_name  == DealName(row, idx)
        tl_total   == row.TermLoan.v
        rev_total  == row.Revolver.v
        ddtl_total == row.DDTL.v
        deal_total == FAdd(FAdd(tl_total, rev_total), ddtl_total)
        tl_sum     == SeriesSum(alloc.term)
        rev_sum    == SeriesSum(alloc.rev)
        ddtl_sum   == SeriesSum(alloc.ddtl)
        all_sum    == FAdd(FAdd(tl_sum, rev_sum), ddtl_sum)
        Total(veh) == FAdd(FAdd(SeriesGet(alloc.term, veh), SeriesGet(alloc.rev, veh)),
                           SeriesGet(alloc.ddtl, veh))
        Target(veh) == vdf[CHOOSE j \in 1..Len(vdf) : vdf[j].Vehicle.s = veh].TargetHold.v
    IN  [idx         |-> idx,
         header      |-> [number |-> idx + 1, deal_name |-> deal_name],
         summary     |-> [Deal |-> deal_name],
         tl_total    |-> tl_total,
         rev_total   |-> rev_total,
         ddtl_total  |-> ddtl_total,
         deal_total  |-> deal_total,
         alloc_term  |-> alloc.term,
         alloc_rev   |-> alloc.rev,
         alloc_ddtl  |-> alloc.ddtl,
         alloc_fmt   |->
            [i \in 1..Len(vehicles) |->
                [Vehicle  |-> vehicles[i],
                 TermLoan |-> fmt_dollars(SeriesGet(alloc.term, vehicles[i])),
                 Revolver |-> fmt_dollars(SeriesGet(alloc.rev, vehicles[i])),
                 DDTL     |-> fmt_dollars(SeriesGet(alloc.ddtl, vehicles[i])),
                 Total    |-> fmt_dollars(Total(vehicles[i]))]],
         tl_sum      |-> tl_sum,
         rev_sum     |-> rev_sum,
         ddtl_sum    |-> ddtl_sum,
         check_df    |->
            << CheckRow("Term Loan", tl_total, tl_sum),
               CheckRow("Revolver", rev_total, rev_sum),
               CheckRow("DDTL", ddtl_total, ddtl_sum),
               CheckRow("TOTAL DEAL", deal_total, all_sum) >>,
         pro_rata_df |->
            [i \in 1..Len(vehicles) |->
                [Vehicle     |-> vehicles[i],
                 Allocated   |-> fmt_dollars(Total(vehicles[i])),
                 TargetHold  |-> fmt_dollars(Target(vehicles[i])),
                 Share       |-> IF FPos(deal_total)
                                 THEN fmt_percent(FMul(FDiv(Total(vehicles[i]), deal_total),
                                                       Hundred))
                                 ELSE Blank,
                 PctOfTarget |-> IF FPos(Target(vehicles[i]))
                                 THEN fmt_percent(FMul(FDiv(Total(vehicles[i]),
                                                            Target(vehicles[i])), Hundred))
                                 ELSE Blank]]]

\* One pass of the loop body that is not skipped.
DealSection(row, idx, vdf, vehicles) ==
    Bind(AllocVectors(row, vdf, vehicles),
         LAMBDA alloc : SectionTables(row, idx, vdf, vehicles, alloc))

\* vdf with what the section allocated taken off each vehicle's availability
Deplete(vdf, sec) ==
    [j \in 1..Len(vdf) |->
        [vdf[j] EXCEPT !.Availability =
            Num(FSub(@.v, FAdd(FAdd(sec.alloc_term[j].v, sec.alloc_rev[j].v),
                               sec.alloc_ddtl[j].v)))]]

\* (mutant) each deal uses up the availability it was allocated
RECURSIVE DealLoopDepleting(_, _, _, _)
DealLoopDepleting(deals, i, vdf, vehicles) ==
    IF i > Len(deals) THEN <<>>
    ELSE Bind(DealSection(deals[i], i - 1, vdf, vehicles),
              LAMBDA sec : <<sec>> \o DealLoopDepleting(deals, i + 1, Deplete(vdf, sec),
                                                        vehicles))

\* for idx, row in deals.iterrows(): rows i .. Len(deals)
RECURSIVE DealLoop(_, _, _, _)
DealLoop(deals, i, vdf, vehicles) ==
    IF i > Len(deals) THEN <<>>
    ELSE (IF SkipRow(deals[i], i - 1) THEN <<>>
          ELSE <<DealSection(deals[i], i - 1, vdf, vehicles)>>)
         \o DealLoop(deals, i + 1, vdf, vehicles)

\* The "Vehicle Availability Summary" table.
AvailDisplay(vdf) ==
    [i \in 1..Len(vdf) |->
        [Vehicle      |-> vdf[i].Vehicle.s,
         Cash         |-> fmt_dollars(vdf[i].Cash.v),
         Unfunded     |-> fmt_dollars(vdf[i].Unfunded.v),
         Uncalled     |-> fmt_dollars(vdf[i].Uncalled.v),
         Availability |-> fmt_dollars(vdf[i].Availability.v),
         TargetHold   |-> fmt_dollars(vdf[i].TargetHold.v),
         RevolverOn   |-> vdf[i].RevolverOn.b,
         DDTLOn       |-> vdf[i].DDTLOn.b]]

\* What the page shows below the two editors.
InfoOut == [info |-> TRUE, error |-> FALSE, avail_shown |-> FALSE, avail |-> <<>>,
            sections |-> <<>>]
ErrorOut == [info |-> FALSE, error |-> TRUE, avail_shown |-> FALSE, avail |-> <<>>,
             sections |-> <<>>]

\* (mutant) an availability of 0 counts as positive
vdf_pos_or_zero(vdf) == SelectSeq(vdf, LAMBDA r : ~r.Availability.v.neg)

\* Vehicles with positive availability (for baseline checks)
vdf_pos(vdf) == SelectSeq(vdf, LAMBDA r : FPos(r.Availability.v))

\* The body of "if st.button(...)": the two editors' frames afterwards, and
\* what is shown.
\* The handler once the frames are cleaned: heap[1] and heap[2] are the editors' frames.
HandlerOn(heap, deals, vdf) ==
    LET vehicles == [i \in 1..Len(vdf) |-> vdf[i].Vehicle.s]
    IN  [deals_df    |-> heap[1],
         vehicles_df |-> heap[2],
         out |-> IF vdf_pos(vdf) = <<>> THEN ErrorOut
                 ELSE [info |-> FALSE, error |-> FALSE, avail_shown |-> TRUE,
                       avail |-> AvailDisplay(vdf),
                       sections |-> DealLoop(deals, 1, vdf, vehicles)]]

Handler(d_df, v_df) ==
    LET c1 == clean_deals(<<d_df, v_df>>, 1)
        c2 == clean_vehicles(c1.heap, 2)
        c3 == compute_availability(c2.heap, c2.ref)
    IN  Bind(<<c3.heap, c1.ref, c3.ref>>,
             LAMBDA c : HandlerOn(c[1], c[1][c[2]], c[1][c[3]]))

(***************************************************************************)
(* The inputs drawn.  The editors hold any rows the user types; the model  *)
(* draws each table as some of the rows below, in this order, at most      *)
(* MaxVehicles vehicles and MaxDeals deals.  Vehicle names are distinct    *)
(* (a vehicle's identity is its name).  Amounts are in dollars.            *)
(***************************************************************************)
MaxVehicles == 3
MaxDeals == 2

\* Clicks of the button followed between two edits.
MaxRuns == 2

\* 2^k as a float
TwoTo(k) == [neg |-> FALSE, m |-> <<1>>, e |-> k]

VehicleRow(name, cash, unfunded, uncalled, target, rev, ddtl) ==
    [Vehicle |-> name, Cash |-> cash, Unfunded |-> unfunded, Uncalled |-> uncalled,
     TargetHold |-> target, RevolverOn |-> rev, DDTLOn |-> ddtl]

VehicleRows ==
    << \* availability 10, Revolver off
       VehicleRow(Text(<<"A">>), Num(FromInt(10)), NoneNum, Num(Zero),
                  Num(FromInt(40)), Bool(FALSE), Bool(TRUE)),
       \* availability 30, DDTL left empty
       VehicleRow(Text(<<" ", "B">>), Num(FromInt(10)), Num(FromInt(10)), Num(FromInt(10)),
                  NoneNum, Bool(TRUE), NoneBool),
       \* availability 20
       VehicleRow(Text(<<"C">>), Num(FromInt(20)), Num(Zero), Num(Zero),
                  Num(FromInt(30)), Bool(TRUE), Bool(TRUE)),
       \* availability 0, both toggles on
       VehicleRow(Text(<<"Z">>), Num(FromInt(-5)), Num(FromInt(5)), NoneNum,
                  Num(FromInt(20)), Bool(TRUE), Bool(TRUE)),
       \* availability -5, both toggles on
       VehicleRow(Text(<<"N">>), Num(FromInt(-5)), Num(Zero), Num(Zero),
                  Num(FromInt(20)), Bool(TRUE), Bool(TRUE)),
       \* availability 2^60, DDTL off
       VehicleRow(Text(<<"H">>), Num(TwoTo(60)), Num(Zero), Num(Zero),
                  Num(FromInt(20)), Bool(TRUE), Bool(FALSE)) >>

DealRow(name, tl, rev, ddtl) ==
    [Deal |-> name, TermLoan |-> tl, Revolver |-> rev, DDTL |-> ddtl]

DealRows ==
    << DealRow(Text(<<"A", "B", "C">>), Num(FromInt(100)), Num(FromInt(50)), Num(FromInt(7))),
       DealRow(Text(<<" ", "X", "Y", " ">>), NoneNum, Num(Zero), Num(FromInt(100))),
       \* a row with no name and no tranche sizes
       DealRow(Text(<<" ", " ">>), Num(Zero), NoneNum, Num(Zero)),
       \* a row added and left empty
       DealRow(NoneText, NoneNum, NoneNum, NoneNum),
       \* no name, and a negative size
       DealRow(Text(<<>>), Num(FromInt(100)), Num(FromInt(-50)), Num(Zero)) >>

\* The rows of `rows` whose positions are in S, in order.
Pick(rows, S) ==
    LET F[i \in 0..Len(rows)] ==
            IF i = 0 THEN <<>>
            ELSE IF i \in S THEN Append(F[i - 1], rows[i]) ELSE F[i - 1]
    IN  F[Len(rows)]

Tables(rows, max) ==
    {Pick(rows, S) : S \in {T \in SUBSET (1..Len(rows)) : Cardinality(T) <= max}}

VehicleTables == Tables(VehicleRows, MaxVehicles)
DealTables == Tables(DealRows, MaxDeals)

(***************************************************************************)
(* State.                                                                  *)
(***************************************************************************)
VARIABLES
    deals_df,     \* the frame the deals editor returns
    vehicles_df,  \* the frame the vehicles editor returns
    out,          \* what the page shows below the editors
    runs,         \* clicks of the button since the last edit
    prev_run      \* the inputs and the output of the first click since the last edit

vars == <<deals_df, vehicles_df, out, runs, prev_run>>

NoRun == [valid |-> FALSE, deals_df |-> <<>>, vehicles_df |-> <<>>, out |-> InfoOut]

Init ==
    /\ deals_df \in DealTables
    /\ vehicles_df \in VehicleTables
    /\ out = InfoOut
    /\ runs = 0
    /\ prev_run = NoRun

\* The user clicks "Calculate Allocations": the script reruns with the button True.
Calculate ==
    /\ runs < MaxRuns
    /\ \E h \in {Handler(deals_df, vehicles_df)} :
        /\ deals_df' = h.deals_df
        /\ vehicles_df' = h.vehicles_df
        /\ out' = h.out
        /\ runs' = runs + 1
        /\ prev_run' = IF runs = 0
                       THEN [valid |-> TRUE, deals_df |-> deals_df,
                             vehicles_df |-> vehicles_df, out |-> h.out]
                       ELSE prev_run

\* The user edits the deals table: the script reruns with the button False.
EditDeals ==
    \E t \in DealTables :
        /\ t # deals_df
        /\ deals_df' = t
        /\ out' = InfoOut
        /\ runs' = 0
        /\ prev_run' = NoRun
        /\ UNCHANGED vehicles_df

\* The user edits the vehicles table: the script reruns with the button False.
EditVehicles ==
    \E t \in VehicleTables :
        /\ t # vehicles_df
        /\ vehicles_df' = t
        /\ out' = InfoOut
        /\ runs' = 0
        /\ prev_run' = NoRun
        /\ UNCHANGED deals_df

Next == Calculate \/ EditDeals \/ EditVehicles

Spec == Init /\ [][Next]_vars

(***************************************************************************)
(* Vocabulary of the properties.  They read the run whose output is shown: *)
(* its inputs are prev_run.deals_df and prev_run.vehicles_df, its output   *)
(* is out.  The quantities below are taken from the raw input cells, not   *)
(* from the handler's intermediate frames.                                 *)
(***************************************************************************)
\* exact x - y, |x|, x * k, x * 2^k, x <= y
XSub(x, y) == XAdd(x, FNeg(y))
XAbs(x) == [x EXCEPT !.neg = FALSE]
XMulSmall(x, k) == Canon(x.neg, NMulSmall(x.m, k), x.e)
XShift(x, k) == IF x.m = <<>> THEN x ELSE [x EXCEPT !.e = @ + k]
XLeq(x, y) == ~FPos(XSub(x, y))

\* |x - y| <= k * 2^(-Precision) * y: x is y up to k roundings
Within(x, y, k) == XLeq(XShift(XAbs(XSub(x, y)), Precision), XMulSmall(y, k))

Facilities == {"Term Loan", "Revolver", "DDTL"}

\* A number cell and a checkbox cell as entered (an empty cell is 0, off).
NumOf(c) == IF c.none THEN Zero ELSE c.v
OnOf(c) == ~c.none /\ c.b

\* cash + unfunded commitments + uncalled capital of an input row
AvailOf(r) == FAdd(FAdd(NumOf(r.Cash), NumOf(r.Unfunded)), NumOf(r.Uncalled))

\* availability > 0, and for Revolver and DDTL the matching toggle on
EligibleFor(r, f) ==
    /\ FPos(AvailOf(r))
    /\ f = "Revolver" => OnOf(r.RevolverOn)
    /\ f = "DDTL" => OnOf(r.DDTLOn)

EligibleSet(rows, f) == {i \in 1..Len(rows) : EligibleFor(rows[i], f)}

\* the availabilities of the eligible rows, added in row order
RECURSIVE DenFrom(_, _, _)
DenFrom(rows, f, i) ==
    IF i = 0 THEN Zero
    ELSE IF EligibleFor(rows[i], f) THEN FAdd(DenFrom(rows, f, i - 1), AvailOf(rows[i]))
    ELSE DenFrom(rows, f, i - 1)

DenOf(rows, f) == DenFrom(rows, f, Len(rows))

\* the stated size, the allocation vector and the sum of allocations of a section
SizeOf(sec, f) ==
    IF f = "Term Loan" THEN sec.tl_total
    ELSE IF f = "Revolver" THEN sec.rev_total ELSE sec.ddtl_total

AllocOf(sec, f) ==
    IF f = "Term Loan" THEN sec.alloc_term
    ELSE IF f = "Revolver" THEN sec.alloc_rev ELSE sec.alloc_ddtl

SumOf(sec, f) ==
    IF f = "Term Loan" THEN sec.tl_sum
    ELSE IF f = "Revolver" THEN sec.rev_sum ELSE sec.ddtl_sum

Sections == 1..Len(out.sections)
RunRows == prev_run.vehicles_df

\* facility f of section s has a size > 0 and an eligible vehicle
Allocatable(s, f) ==
    FPos(SizeOf(out.sections[s], f)) /\ EligibleSet(RunRows, f) # {}

(***************************************************************************)
(* C1.  Stated: for every deal and every facility with size > 0 and an     *)
(* eligible vehicle, the sum of the facility's allocations over the        *)
(* vehicles equals the stated size.                                        *)
(***************************************************************************)
\* C1 as stated: the sum (tl_sum, rev_sum, ddtl_sum) is exactly the size.
C1_SumEqualsSize ==
    \A s \in Sections : \A f \in Facilities :
        Allocatable(s, f) => SumOf(out.sections[s], f) = SizeOf(out.sections[s], f)

\* C1 amended: for every deal and every facility with size > 0 and an eligible
\* vehicle, the sum of the facility's allocations over the n vehicles is the
\* stated size up to floating-point rounding: it differs from the size by at
\* most (2n + 1) * 2^-53 times the size.
C1_SumWithinRounding ==
    \A s \in Sections : \A f \in Facilities :
        Allocatable(s, f) =>
            Within(SumOf(out.sections[s], f), SizeOf(out.sections[s], f),
                   2 * Len(RunRows) + 1)

\* A deal whose Term Loan is split over two or more vehicles and whose sum of
\* allocations is not the size to the last bit.
C1_Witness ==
    \E s \in Sections :
        /\ Allocatable(s, "Term Loan")
        /\ Cardinality(EligibleSet(RunRows, "Term Loan")) >= 2
        /\ out.sections[s].tl_sum # out.sections[s].tl_total

\* the allocation of facility f that section s gives to the vehicle of row i
Amount(s, f, i) == AllocOf(out.sections[s], f)[i].v

\* availability / (sum of availability over the eligible vehicles) * T
ProRata(rows, f, i, T) == FMul(FDiv(AvailOf(rows[i]), DenOf(rows, f)), T)

\* the vehicles table holds exactly the availabilities a and b, in this order
TwoVehicles(a, b) ==
    /\ Len(RunRows) = 2
    /\ AvailOf(RunRows[1]) = FromInt(a)
    /\ AvailOf(RunRows[2]) = FromInt(b)

(***************************************************************************)
(* C2.  For every facility with size T > 0 and every vehicle p eligible    *)
(* for it, the allocation is availability[p] / (sum of availability over   *)
(* the facility's eligible vehicles) * T, computed in that order in        *)
(* floating point, and it is 0 for every non-eligible vehicle; the weight  *)
(* is cash + unfunded + uncalled whatever the toggles are; availabilities  *)
(* 10 and 30 with Term Loan 100 give 25 and 75.                            *)
(***************************************************************************)
C2_ProRataFormula ==
    /\ \A s \in Sections : \A f \in Facilities :
        FPos(SizeOf(out.sections[s], f)) =>
            \A i \in 1..Len(RunRows) :
                Amount(s, f, i) =
                    IF EligibleFor(RunRows[i], f)
                    THEN ProRata(RunRows, f, i, SizeOf(out.sections[s], f))
                    ELSE Zero
    /\ \A s \in Sections :
        TwoVehicles(10, 30) /\ out.sections[s].tl_total = Hundred =>
            /\ Amount(s, "Term Loan", 1) = FromInt(25)
            /\ Amount(s, "Term Loan", 2) = FromInt(75)

\* Availabilities 10 and 30 share a Term Loan of 100, the vehicle of 10 having
\* its Revolver toggle off and the other its DDTL toggle off.
C2_Witness ==
    \E s \in Sections :
        /\ TwoVehicles(10, 30)
        /\ out.sections[s].tl_total = Hundred
        /\ ~OnOf(RunRows[1].RevolverOn) /\ ~OnOf(RunRows[2].DDTLOn)
        /\ Amount(s, "Term Loan", 2) = FromInt(75)

(***************************************************************************)
(* C3.  Every vehicle whose availability is <= 0 receives an allocation of *)
(* exactly 0 in every facility of every deal, whatever its toggles and     *)
(* whatever the facility sizes.                                            *)
(***************************************************************************)
C3_NoAvailabilityNoAllocation ==
    \A s \in Sections : \A f \in Facilities : \A i \in 1..Len(RunRows) :
        ~FPos(AvailOf(RunRows[i])) => Amount(s, f, i) = Zero

\* A vehicle of negative availability with both toggles on, in a deal whose
\* three facilities have a size > 0 and are allocated to another vehicle.
C3_Witness ==
    \E s \in Sections : \E i \in 1..Len(RunRows) :
        /\ AvailOf(RunRows[i]).neg
        /\ OnOf(RunRows[i].RevolverOn) /\ OnOf(RunRows[i].DDTLOn)
        /\ \A f \in Facilities : Allocatable(s, f) /\ Amount(s, f, i) = Zero

(***************************************************************************)
(* C4.  A vehicle whose Revolver On toggle is off receives exactly 0 of    *)
(* the Revolver of every deal, one whose DDTL On toggle is off exactly 0   *)
(* of the DDTL, even when its availability is > 0; the toggles never       *)
(* remove it from Term Loan: with availability > 0 it receives a positive  *)
(* part of every Term Loan of size > 0.  A (availability 10, Revolver      *)
(* off) and B (availability 30, Revolver on) with Revolver 50 give A = 0   *)
(* and B = 50.                                                             *)
(***************************************************************************)
C4_ToggleOffNoAllocation ==
    \A s \in Sections :
        /\ \A i \in 1..Len(RunRows) :
            /\ ~OnOf(RunRows[i].RevolverOn) => Amount(s, "Revolver", i) = Zero
            /\ ~OnOf(RunRows[i].DDTLOn) => Amount(s, "DDTL", i) = Zero
            /\ FPos(AvailOf(RunRows[i])) /\ FPos(out.sections[s].tl_total) =>
                    FPos(Amount(s, "Term Loan", i))
        /\ ( /\ TwoVehicles(10, 30)
             /\ ~OnOf(RunRows[1].RevolverOn) /\ OnOf(RunRows[2].RevolverOn)
             /\ out.sections[s].rev_total = FromInt(50) )
           => Amount(s, "Revolver", 1) = Zero /\ Amount(s, "Revolver", 2) = FromInt(50)

\* A (availability 10, Revolver off) and B (availability 30, Revolver on) in a
\* deal with Revolver 50 and a Term Loan: A has none of the Revolver and a
\* part of the Term Loan.
C4_Witness ==
    \E s \in Sections :
        /\ TwoVehicles(10, 30)
        /\ ~OnOf(RunRows[1].RevolverOn) /\ OnOf(RunRows[2].RevolverOn)
        /\ out.sections[s].rev_total = FromInt(50)
        /\ Amount(s, "Revolver", 1) = Zero
        /\ FPos(Amount(s, "Term Loan", 1))

\* the run shown ended without the blocking error
Shown == runs >= 1 /\ ~out.error

NoAvailability(rows) == \A i \in 1..Len(rows) : ~FPos(AvailOf(rows[i]))

(***************************************************************************)
(* C5.  When no vehicle has availability > 0 (all are <= 0, or the table   *)
(* is empty), Calculate reports one blocking error and nothing else: no    *)
(* availability summary and no section for any deal; when some vehicle has *)
(* availability > 0 the blocking error is not reported.                    *)
(***************************************************************************)
C5_BlockingError ==
    runs >= 1 =>
        IF NoAvailability(RunRows) THEN out = ErrorOut
        ELSE ~out.error /\ out.avail_shown /\ Len(out.avail) = Len(RunRows)

\* Calculate on a table of vehicles that all have availability 0 and a deal
\* with a Term Loan of 100: the error, and nothing else.
C5_Witness ==
    /\ runs >= 1
    /\ RunRows # <<>>
    /\ \A i \in 1..Len(RunRows) : AvailOf(RunRows[i]) = Zero
    /\ \E d \in 1..Len(prev_run.deals_df) : NumOf(prev_run.deals_df[d].TermLoan) = Hundred
    /\ out.error /\ out.sections = <<>> /\ ~out.avail_shown

(***************************************************************************)
(* C6.  When a facility has size > 0 and no eligible vehicle while some    *)
(* vehicle has availability > 0, the facility's allocation is 0 for every  *)
(* vehicle, no error is reported, and the other facilities of the deal     *)
(* that have a size > 0 and an eligible vehicle are allocated by the       *)
(* proportional formula.                                                   *)
(***************************************************************************)
C6_SilentUnderAllocation ==
    runs >= 1 /\ ~NoAvailability(RunRows) =>
        /\ ~out.error
        /\ \A s \in Sections : \A f \in Facilities :
            FPos(SizeOf(out.sections[s], f)) /\ EligibleSet(RunRows, f) = {} =>
                /\ \A i \in 1..Len(RunRows) : Amount(s, f, i) = Zero
                /\ \A g \in Facilities \ {f} :
                    Allocatable(s, g) =>
                        \A i \in EligibleSet(RunRows, g) :
                            Amount(s, g, i) =
                                ProRata(RunRows, g, i, SizeOf(out.sections[s], g))

\* A deal with a DDTL > 0 that no vehicle is eligible for, whose Term Loan is
\* shared by two vehicles.
C6_Witness ==
    \E s \in Sections :
        /\ FPos(out.sections[s].ddtl_total)
        /\ EligibleSet(RunRows, "DDTL") = {}
        /\ \A i \in 1..Len(RunRows) : Amount(s, "DDTL", i) = Zero
        /\ Allocatable(s, "Term Loan")
        /\ Cardinality({i \in 1..Len(RunRows) : FPos(Amount(s, "Term Loan", i))}) >= 2

\* the position in check_df of a facility's row; the TOTAL DEAL row is the fourth
CheckPos(f) == IF f = "Term Loan" THEN 1 ELSE IF f = "Revolver" THEN 2 ELSE 3

\* the Difference ($) cell reads "$0" or "$-0"
ZeroDollars(cell) == ~cell.blank /\ cell.units = <<>>

\* the facility has nothing to distribute, or a size > 0 and an eligible vehicle
Distributed(s, f) == SizeOf(out.sections[s], f) = Zero \/ Allocatable(s, f)

\* x < 2^k
Below(x, k) == ~XLeq(TwoTo(k), x)

\* the sum of the three sums of allocations, as the TOTAL DEAL row adds them
AllSum(sec) == FAdd(FAdd(sec.tl_sum, sec.rev_sum), sec.ddtl_sum)

VdfOf(rows) ==
    LET c2 == clean_vehicles(<<rows>>, 1)
        c3 == compute_availability(c2.heap, c2.ref)
    IN  c3.heap[c3.ref]

EligOf(vdf, f) ==
    IF f = "Term Loan" THEN tl_elig(vdf)
    ELSE IF f = "Revolver" THEN rev_elig(vdf) ELSE ddtl_elig(vdf)

\* shares = weights / den of facility f, one per row eligible for it
SharesOf(rows, f) == Shares(EligOf(VdfOf(rows), f))

\* Cash, Unfunded Commitments and Uncalled Capital of row i doubled, which
\* doubles its availability; every other cell as it is
DoubleCell(c) == IF c.none THEN c ELSE Num(XShift(c.v, 1))
Doubled(rows, i) ==
    [rows EXCEPT ![i] = [@ EXCEPT !.Cash = DoubleCell(@), !.Unfunded = DoubleCell(@),
                                  !.Uncalled = DoubleCell(@)]]

\* the facilities of the run shown that have a size > 0 in some deal and two
\* or more eligible vehicles
Shared(f) ==
    /\ \E s \in Sections : FPos(SizeOf(out.sections[s], f))
    /\ Cardinality(EligibleSet(RunRows, f)) >= 2

\* the availabilities of the vehicles eligible for f are within a factor 2^k
Comparable(f, k) ==
    \A i, j \in EligibleSet(RunRows, f) :
        XLeq(AvailOf(RunRows[i]), XShift(AvailOf(RunRows[j]), k))

(***************************************************************************)
(* C8.  Stated: for any facility with size > 0 and at least two eligible   *)
(* vehicles, doubling one vehicle's availability, every other input fixed, *)
(* strictly increases that vehicle's share of the facility and strictly    *)
(* decreases the share of every other eligible vehicle.                    *)
(***************************************************************************)
\* C8 as stated: each share after the doubling is strictly above (the doubled
\* vehicle) or strictly below (the others) the share before.
C8_DoublingStrict ==
    \A f \in Facilities :
        Shared(f) =>
            \A i \in EligibleSet(RunRows, f) :
                \A before \in {SharesOf(RunRows, f)} :
                \A after \in {SharesOf(Doubled(RunRows, i), f)} :
                \A n \in 1..Len(before) :
                    IF before[n].k = Strip(RunRows[i].Vehicle.s)
                    THEN FGt(after[n].v, before[n].v)
                    ELSE FGt(before[n].v, after[n].v)

\* C8 amended: doubling one eligible vehicle's availability never decreases
\* its share and never increases the share of another eligible vehicle; the
\* changes are strict when the availabilities of the facility's eligible
\* vehicles are within a factor 2^40 of each other.  (With an availability
\* 2^53 times another the small one is absorbed in the sum and a share can
\* stay as it is.)
C8_DoublingMonotone ==
    \A f \in Facilities :
        Shared(f) =>
            \A i \in EligibleSet(RunRows, f) :
                \A before \in {SharesOf(RunRows, f)} :
                \A after \in {SharesOf(Doubled(RunRows, i), f)} :
                    /\ Len(after) = Len(before)
                    /\ \A n \in 1..Len(before) :
                        /\ after[n].k = before[n].k
                        /\ IF before[n].k = Strip(RunRows[i].Vehicle.s)
                           THEN ~FGt(before[n].v, after[n].v)
                           ELSE ~FGt(after[n].v, before[n].v)
                        /\ Comparable(f, 40) =>
                            IF before[n].k = Strip(RunRows[i].Vehicle.s)
                            THEN FGt(after[n].v, before[n].v)
                            ELSE FGt(before[n].v, after[n].v)

\* A Revolver of size > 0 shared by two vehicles of availabilities 30 and 20:
\* doubling the 30 moves the shares from 3/5 and 2/5 to 3/4 and 1/4.
C8_Witness ==
    /\ Shared("Revolver")
    /\ Comparable("Revolver", 40)
    /\ \E i \in EligibleSet(RunRows, "Revolver") :
        /\ AvailOf(RunRows[i]) = FromInt(30)
        /\ SharesOf(RunRows, "Revolver") =
              SeriesDiv(AvailabilitySeries(EligOf(VdfOf(RunRows), "Revolver")), FromInt(50))
        /\ SharesOf(Doubled(RunRows, i), "Revolver") =
              SeriesDiv(AvailabilitySeries(EligOf(VdfOf(Doubled(RunRows, i)), "Revolver")),
                        FromInt(80))

(***************************************************************************)
(* C9.  Calculate is a pure function of the deals and vehicles tables: it  *)
(* leaves both tables as they were (cleaning and availability work on      *)
(* copies), and a second Calculate on the same tables shows the same       *)
(* availability, allocation, consistency-check and pro-rata outputs as the *)
(* first.                                                                  *)
(***************************************************************************)
C9_CalculatePure ==
    runs >= 1 =>
        /\ deals_df = prev_run.deals_df
        /\ vehicles_df = prev_run.vehicles_df
        /\ out = prev_run.out

\* Two runs in a row on tables that cleaning would rewrite (an empty number
\* cell, a name with spaces around it), with deal sections shown.
C9_Witness ==
    /\ runs = 2
    /\ out.sections # <<>>
    /\ \E d \in 1..Len(deals_df) :
        deals_df[d].TermLoan.none /\ deals_df[d].Deal.s # Strip(deals_df[d].Deal.s)
    /\ \E i \in 1..Len(vehicles_df) :
        vehicles_df[i].Unfunded.none /\ FPos(AvailOf(vehicles_df[i]))

\* a deals row with no name (after stripping) and no tranche sizes
EmptyRow(r) ==
    /\ ~r.Deal.none /\ Strip(r.Deal.s) = <<>>
    /\ NumOf(r.TermLoan) = Zero /\ NumOf(r.Revolver) = Zero /\ NumOf(r.DDTL) = Zero

\* the index labels of the rows that are not empty, in order
RECURSIVE KeptFrom(_, _)
KeptFrom(rows, i) ==
    IF i > Len(rows) THEN <<>>
    ELSE (IF EmptyRow(rows[i]) THEN <<>> ELSE <<i - 1>>) \o KeptFrom(rows, i + 1)

(***************************************************************************)
(* C10.  In the loop over deals, a deals row whose Deal name is empty      *)
(* (after stripping) and whose Term Loan, Revolver and DDTL sizes are all  *)
(* 0 is skipped and produces no section; every other deals row produces    *)
(* exactly one section.                                                    *)
(***************************************************************************)
C10_EmptyRowsSkipped ==
    Shown =>
        [s \in Sections |-> out.sections[s].idx] = KeptFrom(prev_run.deals_df, 1)

\* what a section allocates: the three vectors, their sums and the sizes
Allocation(sec) ==
    [f \in Facilities |->
        [size |-> SizeOf(sec, f), alloc |-> AllocOf(sec, f), sum |-> SumOf(sec, f)]]

\* the deals row a section was made from
RowOf(sec) == prev_run.deals_df[sec.idx + 1]

\* the allocations Calculate shows for a deals table, by the row's name and
\* sizes as entered
AllocationsOf(deals) ==
    LET secs == Handler(deals, RunRows).out.sections
    IN  {<<deals[secs[s].idx + 1], Allocation(secs[s])>> : s \in 1..Len(secs)}

Reversed(seq) == [i \in 1..Len(seq) |-> seq[Len(seq) + 1 - i]]

\* the vehicle of row i is allocated, over the deals shown, more than its availability
OverAllocated(i) ==
    \E s, t \in Sections :
        /\ s < t
        /\ FGt(FAdd(Amount(s, "Term Loan", i), Amount(t, "DDTL", i)), AvailOf(RunRows[i]))

(***************************************************************************)
(* C11.  Deals are allocated independently against the same full vehicle   *)
(* availabilities: the allocation of a deal is the one Calculate gives     *)
(* when the deal is alone in the deals table with the same vehicles, so it *)
(* depends only on the deal's three sizes and the vehicles table; it is    *)
(* the same with other deals added, removed or in another order, and a     *)
(* deal does not reduce the availability used for the deals after it (a    *)
(* vehicle's allocations over the deals may exceed its availability).      *)
(***************************************************************************)
C11_DealsIndependent ==
    Shown =>
        /\ \A s \in Sections :
            \A alone \in {Handler(<<RowOf(out.sections[s])>>, RunRows).out.sections} :
                /\ Len(alone) = 1
                /\ Allocation(alone[1]) = Allocation(out.sections[s])
        /\ \A s, t \in Sections :
            (\A f \in Facilities : SizeOf(out.sections[s], f) = SizeOf(out.sections[t], f))
                => Allocation(out.sections[s]) = Allocation(out.sections[t])
        /\ AllocationsOf(Reversed(prev_run.deals_df)) = AllocationsOf(prev_run.deals_df)
        /\ \A s \in Sections : \A f \in Facilities : \A i \in 1..Len(RunRows) :
            Allocatable(s, f) /\ EligibleFor(RunRows[i], f) =>
                Amount(s, f, i) = ProRata(RunRows, f, i, SizeOf(out.sections[s], f))

\* Two deals with different sizes on the same vehicles: a vehicle of
\* availability 10 has 25 of the first deal's Term Loan and all 100 of the
\* second deal's DDTL, far more than its availability.
C11_Witness ==
    /\ Shown
    /\ Len(out.sections) = 2
    /\ Allocation(out.sections[1]) # Allocation(out.sections[2])
    /\ \E i \in 1..Len(RunRows) :
        /\ AvailOf(RunRows[i]) = FromInt(10)
        /\ Amount(1, "Term Loan", i) = FromInt(25)
        /\ Amount(2, "DDTL", i) = Hundred
        /\ OverAllocated(i)

====
